---- MODULE Spec2Model ----
(***************************************************************************)
(* time-tracker-cloud: the AI edge function (LLM Gateway) of               *)
(* supabase/functions/ai-assistant/index.ts, and the client's cloud sync   *)
(* (index.html, described by the two CLAUDE.md files).                     *)
(*                                                                         *)
(* Text.  A string is a sequence of lexemes: a run of whitespace, a run of *)
(* other characters (a "word"), or, where the string holds JSON text, one  *)
(* JSON token.  Trimming, blank tests, JSON.parse and JSON.stringify are   *)
(* computed on that sequence.                                              *)
(*                                                                         *)
(* Values.  A JavaScript value is a record tagged by k: undefined, null,   *)
(* bool, num, str, arr or obj.  An object keeps its own properties as a    *)
(* sequence of [key, value] entries in insertion order, as Object.entries  *)
(* and JSON.stringify see them.                                            *)
(***************************************************************************)
EXTENDS Integers, Sequences, FiniteSets

VARIABLES
    env,          \* Deno.env: the function's secrets (process-wide)
    pc,           \* where the handler of the current request is
    req,          \* the current request
    upstreamReq,  \* the fetch issued to the LLM endpoint
    upstreamRes,  \* what the fetch settled with
    res,          \* the Response the handler returned
    calls,        \* fetches issued for the current request
    loadState,    \* client: Unloaded / Loading / Loaded / Error
    isDataLoaded, \* client: the write gate
    localDoc,     \* client: window.* state, as the list of mutations applied
    storedDoc,    \* Document Store: the row's data
    inFlight,     \* client: the upsert now in flight
    syncQueue,    \* client: immediate writes waiting behind it
    debounceTimer,\* client: whether the 1000 ms timer is pending
    writeLog,     \* Document Store: every upsert issued to it
    attempts      \* client: every write request made

gatewayVars == <<env, pc, req, upstreamReq, upstreamRes, res, calls>>
clientVars == <<loadState, isDataLoaded, localDoc, storedDoc, inFlight,
                syncQueue, debounceTimer, writeLog, attempts>>
vars == <<env, pc, req, upstreamReq, upstreamRes, res, calls, loadState,
          isDataLoaded, localDoc, storedDoc, inFlight, syncQueue,
          debounceTimer, writeLog, attempts>>

-----------------------------------------------------------------------------
(* JavaScript values *)

Undefined == [k |-> "undefined"]
JNull == [k |-> "null"]
JBool(b) == [k |-> "bool", b |-> b]
JNum(n) == [k |-> "num", n |-> n]
JStr(s) == [k |-> "str", s |-> s]
JArr(a) == [k |-> "arr", a |-> a]
JObj(m) == [k |-> "obj", m |-> m]

(* lexemes *)
WS == [t |-> "ws"]
Word(w) == [t |-> "word", w |-> w]
Punct(p) == [t |-> p]
Lit(v) == [t |-> "lit", v |-> v]
StrTok(s) == [t |-> "str", s |-> s]

\* a string of one word, such as a property name
K(w) == <<Word(w)>>
Entry(key, value) == [key |-> key, value |-> value]

\* ToBoolean
Truthy(v) ==
    CASE v.k = "undefined" -> FALSE
      [] v.k = "null" -> FALSE
      [] v.k = "bool" -> v.b
      [] v.k = "num" -> v.n # 0
      [] v.k = "str" -> v.s # <<>>
      [] OTHER -> TRUE

\* a || b
Or(a, b) == IF Truthy(a) THEN a ELSE b

\* typeof v
TypeOf(v) ==
    CASE v.k = "undefined" -> "undefined"
      [] v.k = "bool" -> "boolean"
      [] v.k = "num" -> "number"
      [] v.k = "str" -> "string"
      [] OTHER -> "object"

\* String.prototype.trim
RECURSIVE TrimStart(_)
TrimStart(s) ==
    IF s # <<>> /\ Head(s) = WS THEN TrimStart(Tail(s)) ELSE s

RECURSIVE TrimEnd(_)
TrimEnd(s) ==
    IF s # <<>> /\ s[Len(s)] = WS THEN TrimEnd(SubSeq(s, 1, Len(s) - 1)) ELSE s

Trim(s) == TrimEnd(TrimStart(s))

\* own property lookup in an object's entries
HasProp(m, key) == \E i \in 1..Len(m) : m[i].key = key

PropOf(m, key) == m[CHOOSE i \in 1..Len(m) : m[i].key = key].value

\* obj[key] = value: a new key is appended, an existing one keeps its place
SetProp(m, key, value) ==
    IF HasProp(m, key)
    THEN [i \in 1..Len(m) |->
            IF m[i].key = key THEN Entry(key, value) ELSE m[i]]
    ELSE Append(m, Entry(key, value))

\* v.key, for a v that is neither null nor undefined (those throw)
GetProp(v, key) ==
    IF v.k = "obj" /\ HasProp(v.m, key) THEN PropOf(v.m, key) ELSE Undefined

\* v?.key
OptProp(v, key) ==
    IF v.k \in {"undefined", "null"} THEN Undefined ELSE GetProp(v, key)

\* the property name of array index i
IndexKey(i) == <<Lit(JNum(i))>>

\* v?.[0]; of a string the first lexeme stands for its first character
OptFirst(v) ==
    CASE v.k = "arr" -> IF v.a # <<>> THEN v.a[1] ELSE Undefined
      [] v.k = "obj" -> GetProp(v, IndexKey(0))
      [] v.k = "str" -> IF v.s # <<>> THEN JStr(<<Head(v.s)>>) ELSE Undefined
      [] OTHER -> Undefined

-----------------------------------------------------------------------------
(* JSON.parse, on the lexemes of the text *)

RECURSIVE SkipWs(_)
SkipWs(ts) == IF ts # <<>> /\ Head(ts) = WS THEN SkipWs(Tail(ts)) ELSE ts

ParseFail == [ok |-> FALSE, v |-> Undefined, rest |-> <<>>]
ParseOk(v, rest) == [ok |-> TRUE, v |-> v, rest |-> rest]

NextIs(ts, p) == ts # <<>> /\ Head(ts).t = p

RECURSIVE ParseValue(_), ParseMembers(_, _), ParseElements(_, _)
ParseValue(ts0) ==
    LET ts == SkipWs(ts0) IN
    IF ts = <<>> THEN ParseFail
    ELSE LET h == Head(ts)
             r == SkipWs(Tail(ts))
         IN  CASE h.t = "lit" -> ParseOk(h.v, Tail(ts))
               [] h.t = "str" -> ParseOk(JStr(h.s), Tail(ts))
               [] h.t = "{" -> IF NextIs(r, "}")
                               THEN ParseOk(JObj(<<>>), Tail(r))
                               ELSE ParseMembers(r, <<>>)
               [] h.t = "[" -> IF NextIs(r, "]")
                               THEN ParseOk(JArr(<<>>), Tail(r))
                               ELSE ParseElements(r, <<>>)
               [] OTHER -> ParseFail

ParseMembers(ts, acc) ==
    IF ~NextIs(ts, "str") THEN ParseFail
    ELSE LET key == Head(ts).s
             r1 == SkipWs(Tail(ts))
         IN  IF ~NextIs(r1, ":") THEN ParseFail
             ELSE LET pv == ParseValue(Tail(r1)) IN
                  IF ~pv.ok THEN ParseFail
                  ELSE LET acc1 == SetProp(acc, key, pv.v)
                           r2 == SkipWs(pv.rest)
                       IN  IF NextIs(r2, "}") THEN ParseOk(JObj(acc1), Tail(r2))
                           ELSE IF NextIs(r2, ",")
                                THEN ParseMembers(SkipWs(Tail(r2)), acc1)
                                ELSE ParseFail

ParseElements(ts, acc) ==
    LET pv == ParseValue(ts) IN
    IF ~pv.ok THEN ParseFail
    ELSE LET acc1 == Append(acc, pv.v)
             r2 == SkipWs(pv.rest)
         IN  IF NextIs(r2, "]") THEN ParseOk(JArr(acc1), Tail(r2))
             ELSE IF NextIs(r2, ",") THEN ParseElements(Tail(r2), acc1)
                  ELSE ParseFail

\* JSON.parse(text): ok is FALSE where it throws a SyntaxError
JSONParse(text) ==
    LET pv == ParseValue(text) IN
    IF pv.ok /\ SkipWs(pv.rest) = <<>>
    THEN [ok |-> TRUE, v |-> pv.v]
    ELSE [ok |-> FALSE, v |-> Undefined]

(* JSON.stringify, to the lexemes of the text *)

RECURSIVE Stringify(_), StringifyMembers(_, _), StringifyElements(_, _)
Stringify(v) ==
    CASE v.k = "str" -> <<StrTok(v.s)>>
      [] v.k = "arr" -> <<Punct("[")>> \o StringifyElements(v.a, 1) \o <<Punct("]")>>
      [] v.k = "obj" -> <<Punct("{")>> \o StringifyMembers(v.m, TRUE) \o <<Punct("}")>>
      [] v.k = "undefined" -> <<Lit(JNull)>>
      [] OTHER -> <<Lit(v)>>

\* a property whose value is undefined is left out
StringifyMembers(m, first) ==
    IF m = <<>> THEN <<>>
    ELSE IF Head(m).value = Undefined THEN StringifyMembers(Tail(m), first)
    ELSE (IF first THEN <<>> ELSE <<Punct(",")>>)
         \o <<StrTok(Head(m).key), Punct(":")>>
         \o Stringify(Head(m).value)
         \o StringifyMembers(Tail(m), FALSE)

StringifyElements(a, i) ==
    IF i > Len(a) THEN <<>>
    ELSE (IF i = 1 THEN <<>> ELSE <<Punct(",")>>)
         \o Stringify(a[i])
         \o StringifyElements(a, i + 1)

-----------------------------------------------------------------------------
(* The edge function: index.ts *)

\* the fixed texts of index.ts (the product language is Chinese; each is
\* written here as its ASCII gloss)
MsgEmptyInstruction == K("instruction must not be empty.")   \* 指令不能为空。
MsgNotConfigured == K("AI service not configured: set AI_API_KEY / AI_BASE_URL in Supabase Secrets.")
MsgFallback == K("AI finished processing.")                  \* AI 已完成处理。
MsgFunctionError == Word("function error: ")                 \* 函数错误：
MsgUpstreamFailed == Word("upstream LLM call failed")        \* 上游 LLM 调用失败
MsgNoContent == K("upstream LLM returned no parsable content.")
MsgInvalidJson == K("AI returned invalid JSON. Check model compatibility.")
SystemPrompt == K("system prompt: output JSON; readonly or preview_patch; patch keys limited to the 11 listed")
DefaultModel == K("gemini-3-pro-preview")

\* what the runtime's own errors say
ErrBodySyntax == K("SyntaxError: Unexpected token in JSON")
ErrReadOfNull == K("TypeError: Cannot read properties of null")
ErrTrimNotFunction == K("TypeError: trim is not a function")
ErrFetchFailed == K("TypeError: error sending request")

HistoryLimit == 12
TemperatureTenths == 2

ReadonlyBody(message) ==
    JObj(<<Entry(K("mode"), JStr(K("readonly"))),
           Entry(K("message"), JStr(message))>>)

\* new Response(JSON.stringify(value), {headers, status})
JsonResponse(status, value) ==
    [status |-> status, contentType |-> "application/json",
     body |-> Stringify(value)]

\* faulty variant: no catch block: the runtime answers the thrown error itself
Uncaught(errorMessage) ==
    [status |-> 500, contentType |-> "text/plain",
     body |-> K("Internal Server Error")]

\* the handler's catch block
Caught(errorMessage) ==
    JsonResponse(500, ReadonlyBody(<<MsgFunctionError>> \o errorMessage))

Returned(response) == [kind |-> "response", res |-> response]

\* one entry of rawHistory passes the filter
KeepsHistoryItem(item) ==
    /\ Truthy(item)
    /\ TypeOf(GetProp(item, K("content"))) = "string"
    /\ Trim(GetProp(item, K("content")).s) # <<>>

NormalizeHistoryItem(item) ==
    JObj(<<Entry(K("role"),
                 IF GetProp(item, K("role")) = JStr(K("assistant"))
                 THEN JStr(K("assistant")) ELSE JStr(K("user"))),
           Entry(K("content"), GetProp(item, K("content")))>>)

\* Array.prototype.slice(-n)
SliceLast(a, n) == IF Len(a) <= n THEN a ELSE SubSeq(a, Len(a) - n + 1, Len(a))

MapHistory(a) == [i \in 1..Len(a) |-> NormalizeHistoryItem(a[i])]

\* faulty variant: the cut is made before the filter
SliceThenFilter(rawHistory) ==
    MapHistory(SelectSeq(SliceLast(rawHistory, HistoryLimit), KeepsHistoryItem))

SafeHistory(rawHistory) ==
    MapHistory(SliceLast(SelectSeq(rawHistory, KeepsHistoryItem), HistoryLimit))

\* aiBaseUrl.replace(/\/$/, "")
StripTrailingSlash(url) ==
    IF url # <<>> /\ url[Len(url)] = Word("/")
    THEN SubSeq(url, 1, Len(url) - 1) ELSE url

UpstreamMessages(safeHistory, instruction, context, requirePatchFormat) ==
    <<JObj(<<Entry(K("role"), JStr(K("system"))),
             Entry(K("content"), JStr(SystemPrompt))>>)>>
    \o safeHistory
    \o <<JObj(<<Entry(K("role"), JStr(K("user"))),
                Entry(K("content"),
                      JStr(Stringify(JObj(<<
                          Entry(K("instruction"), JStr(instruction)),
                          Entry(K("context"), context),
                          Entry(K("requirePatchFormat"),
                                JBool(Truthy(requirePatchFormat)))>>))))>>)>>

FetchRequest(aiBaseUrl, aiApiKey, aiModel, messages) ==
    [kind |-> "fetch",
     url |-> StripTrailingSlash(aiBaseUrl) \o <<Word("/chat/completions")>>,
     authorization |-> <<Word("Bearer ")>> \o aiApiKey,
     body |-> Stringify(JObj(<<
         Entry(K("model"), JStr(aiModel)),
         Entry(K("temperature"), JNum(TemperatureTenths)),
         Entry(K("response_format"),
               JObj(<<Entry(K("type"), JStr(K("json_object")))>>)),
         Entry(K("messages"), JArr(messages))>>))]

\* lines 67-114, once the instruction is known to be non-empty
Configure(e, safeHistory, instruction, context, requirePatchFormat) ==
    IF ~Truthy(e.AI_API_KEY) \/ ~Truthy(e.AI_BASE_URL)
    THEN Returned(JsonResponse(500, ReadonlyBody(MsgNotConfigured)))
    ELSE FetchRequest(e.AI_BASE_URL.s, e.AI_API_KEY.s,
                      Or(e.AI_MODEL, JStr(DefaultModel)).s,
                      UpstreamMessages(safeHistory, instruction, context,
                                       requirePatchFormat))

\* faulty variant: the secrets are checked before the instruction
ValidateAfterConfigure(e, body) ==
    LET rawInstruction == Or(GetProp(body, K("instruction")), JStr(<<>>))
        context == Or(GetProp(body, K("context")), JObj(<<>>))
        history == GetProp(body, K("history"))
        rawHistory == IF history.k = "arr" THEN history.a ELSE <<>>
    IN  IF TypeOf(rawInstruction) # "string"
        THEN Returned(Caught(ErrTrimNotFunction))
        ELSE IF ~Truthy(e.AI_API_KEY) \/ ~Truthy(e.AI_BASE_URL)
             THEN Returned(JsonResponse(500, ReadonlyBody(MsgNotConfigured)))
             ELSE IF Trim(rawInstruction.s) = <<>>
                  THEN Returned(JsonResponse(400, ReadonlyBody(MsgEmptyInstruction)))
                  ELSE Configure(e, SafeHistory(rawHistory), Trim(rawInstruction.s),
                                 context, GetProp(body, K("requirePatchFormat")))

\* lines 42-65, on the parsed body
Validate(e, body) ==
    LET rawInstruction == Or(GetProp(body, K("instruction")), JStr(<<>>))
        context == Or(GetProp(body, K("context")), JObj(<<>>))
        history == GetProp(body, K("history"))
        rawHistory == IF history.k = "arr" THEN history.a ELSE <<>>
    IN  IF TypeOf(rawInstruction) # "string"
        THEN Returned(Caught(ErrTrimNotFunction))
        ELSE IF Trim(rawInstruction.s) = <<>>
             THEN Returned(JsonResponse(400, ReadonlyBody(MsgEmptyInstruction)))
             ELSE Configure(e, SafeHistory(rawHistory), Trim(rawInstruction.s),
                            context, GetProp(body, K("requirePatchFormat")))

\* the handler up to its fetch: the Response it returns, or the fetch it issues
BeforeFetch(e, r) ==
    LET parsedBody == JSONParse(r.body) IN
    IF ~parsedBody.ok THEN Returned(Caught(ErrBodySyntax))
    ELSE IF parsedBody.v.k = "null" THEN Returned(Caught(ErrReadOfNull))
         ELSE Validate(e, parsedBody.v)

\* upstreamRes.ok
StatusOk(status) == status >= 200 /\ status <= 299

allowedKeys ==
    {K("records"), K("todos"), K("questions"), K("dailyPlans"),
     K("currentTask"), K("currentTaskDescription"), K("currentPlanId"),
     K("currentTodoId"), K("startTime"), K("pausedTime"), K("isPaused")}

\* Object.entries(patch): an array's entries are keyed by its indices
ObjectEntries(v) ==
    IF v.k = "arr"
    THEN [i \in 1..Len(v.a) |-> Entry(IndexKey(i - 1), v.a[i])]
    ELSE v.m

\* faulty variant: the loop copies every entry
IsAnyEntry(e) == e.key \in allowedKeys \/ e.key \notin allowedKeys

IsAllowedEntry(e) == e.key \in allowedKeys

\* lines 159-164: the loop that copies the allowed entries
FilteredPatch(patch) == JObj(SelectSeq(ObjectEntries(patch), IsAllowedEntry))

\* line 137
SafeMode(parsed) ==
    IF GetProp(parsed, K("mode")) = JStr(K("preview_patch"))
    THEN JStr(K("preview_patch")) ELSE JStr(K("readonly"))

\* lines 138-140
SafeMessage(parsed) ==
    LET message == GetProp(parsed, K("message")) IN
    IF TypeOf(message) = "string" /\ Trim(message.s) # <<>>
    THEN message ELSE JStr(MsgFallback)

\* line 143
TakesPatch(parsed) ==
    /\ SafeMode(parsed) = JStr(K("preview_patch"))
    /\ Truthy(GetProp(parsed, K("patch")))
    /\ TypeOf(GetProp(parsed, K("patch"))) = "object"

\* lines 136-172, for a parsed value whose properties can be read
Safe(parsed) ==
    LET safe == <<Entry(K("mode"), SafeMode(parsed)),
                  Entry(K("message"), SafeMessage(parsed))>>
    IN  IF TakesPatch(parsed)
        THEN JObj(SetProp(safe, K("patch"),
                          FilteredPatch(GetProp(parsed, K("patch")))))
        ELSE JObj(safe)

\* lines 128-172: reading parsed.mode of null throws
Sanitize(parsed) ==
    IF parsed.k = "null" THEN Caught(ErrReadOfNull)
    ELSE JsonResponse(200, Safe(parsed))

\* lines 121-134
ReadContent(upstreamData) ==
    LET content == OptProp(OptProp(OptFirst(OptProp(upstreamData, K("choices"))),
                                   K("message")), K("content"))
    IN  IF ~Truthy(content) \/ TypeOf(content) # "string"
        THEN Caught(MsgNoContent)
        ELSE IF ~JSONParse(content.s).ok THEN Caught(MsgInvalidJson)
             ELSE Sanitize(JSONParse(content.s).v)

\* the handler from the settling of its fetch to the Response it returns
AfterFetch(u) ==
    IF u.kind = "rejected" THEN Caught(ErrFetchFailed)
    ELSE IF ~StatusOk(u.status)
         THEN Caught(<<MsgUpstreamFailed, Punct("("), Lit(JNum(u.status)),
                       Punct(")"), Punct(":"), WS>> \o u.body)
         ELSE IF ~JSONParse(u.body).ok THEN Caught(ErrBodySyntax)
              ELSE ReadContent(JSONParse(u.body).v)

-----------------------------------------------------------------------------
(* Bounds of the inputs *)

MaxPatchKeys == 2     \* properties of a model-proposed patch
MaxHistory == 14      \* entries of a request's history
MaxDropped == 2       \* history entries the filter drops
MaxMutations == 2     \* client: local mutations in a session
MaxAttempts == 2      \* client: write requests in a session

(* Requests *)

Post(body) == [method |-> "POST", body |-> body]

RequestBody(instruction, context, history, requirePatchFormat) ==
    Stringify(JObj(<<Entry(K("instruction"), instruction),
                     Entry(K("context"), context),
                     Entry(K("history"), history),
                     Entry(K("requirePatchFormat"), requirePatchFormat)>>))

GoodInstruction == JStr(K("add a todo"))

Instructions ==
    {Undefined, JNull, JNum(0), JNum(7), JStr(<<>>), JStr(<<WS>>),
     JStr(<<WS, Word("add a todo"), WS>>), GoodInstruction}

Contexts == {Undefined, JObj(<<Entry(K("todos"), JArr(<<>>))>>)}

HistoryItem(role, content) ==
    JObj(<<Entry(K("role"), role), Entry(K("content"), content)>>)

ShortHistories ==
    {Undefined, JStr(K("none")),
     JArr(<<HistoryItem(JStr(K("assistant")), JStr(K("done"))),
            HistoryItem(JStr(K("user")), JStr(<<WS>>))>>)}

PatchFlags == {Undefined, JBool(TRUE)}

BrokenBodies == {<<>>, K("not json"), <<Lit(JNull)>>, <<Lit(JNum(5))>>,
                 <<Punct("{"), StrTok(K("instruction"))>>}

Requests ==
    {Post(RequestBody(i, c, h, f)) :
        i \in Instructions, c \in Contexts, h \in ShortHistories, f \in PatchFlags}
    \cup {Post(b) : b \in BrokenBodies}
    \cup {[method |-> "OPTIONS", body |-> <<>>]}

SecretValues(name) == {Undefined, JStr(<<>>), JStr(K(name))}

Envs ==
    [AI_API_KEY : SecretValues("sk-key"),
     AI_BASE_URL : {Undefined, JStr(<<>>), JStr(<<Word("https://llm.example/v1"), Word("/")>>)},
     AI_MODEL : {Undefined, JStr(K("some-model"))}]

ConfiguredEnv ==
    [AI_API_KEY |-> JStr(K("sk-key")),
     AI_BASE_URL |-> JStr(K("https://llm.example/v1")),
     AI_MODEL |-> Undefined]

(* What the LLM endpoint answers *)

Rejected == [kind |-> "rejected"]
UpstreamResponse(status, body) ==
    [kind |-> "response", status |-> status, body |-> body]

\* an OpenAI-compatible completion whose message content is `content`
Completion(content) ==
    Stringify(JObj(<<Entry(K("choices"), JArr(<<
        JObj(<<Entry(K("message"),
                     JObj(<<Entry(K("role"), JStr(K("assistant"))),
                            Entry(K("content"), content)>>))>>)>>))>>))

ModelOutput(mode, message, patch) ==
    JObj(<<Entry(K("mode"), mode), Entry(K("message"), message),
           Entry(K("patch"), patch)>>)

\* Scenario C of the tests: {"mode":"preview_patch","patch":{"todos":[],"hacked":"x"},"message":"ok"}
ScenarioC ==
    JObj(<<Entry(K("mode"), JStr(K("preview_patch"))),
           Entry(K("patch"), JObj(<<Entry(K("todos"), JArr(<<>>)),
                                    Entry(K("hacked"), JStr(K("x")))>>)),
           Entry(K("message"), JStr(K("ok")))>>)

FewUpstreamResults ==
    {Rejected,
     UpstreamResponse(500, K("internal error")),
     UpstreamResponse(429, K("rate limited")),
     UpstreamResponse(200, K("<html>")),
     UpstreamResponse(200, <<Lit(JNull)>>),
     UpstreamResponse(200, Stringify(JObj(<<>>))),
     UpstreamResponse(200, Stringify(JObj(<<Entry(K("choices"), JArr(<<>>))>>))),
     UpstreamResponse(200, Completion(JNull)),
     UpstreamResponse(200, Completion(JStr(<<>>))),
     UpstreamResponse(200, Completion(JObj(<<Entry(K("mode"), JStr(K("readonly")))>>))),
     UpstreamResponse(200, Completion(JStr(K("not json")))),
     UpstreamResponse(200, Completion(JStr(<<Lit(JNull)>>))),
     UpstreamResponse(200, Completion(JStr(Stringify(
         ModelOutput(JStr(K("readonly")), JStr(K("3 todos are overdue")), Undefined))))),
     UpstreamResponse(200, Completion(JStr(Stringify(ScenarioC))))}

(* Model outputs, for the sanitizer *)

\* property names a model may put in a patch: the 11 of the system prompt
\* and two that are not allowed
PatchKeyOrder ==
    <<"records", "hacked", "todos", "questions", "dailyPlans", "currentTask",
      "Todos", "currentTaskDescription", "currentPlanId", "currentTodoId",
      "startTime", "pausedTime", "isPaused">>

PatchValueCycle ==
    <<JArr(<<>>), JNull, JStr(K("x")), JBool(TRUE), JNum(0),
      JArr(<<JObj(<<Entry(K("id"), JNum(1))>>)>>)>>

Indices(n) == [i \in 1..n |-> i]

\* the patch whose properties are those of PatchKeyOrder at the indices in S
PatchObject(S, shift) ==
    LET In(i) == i \in S
        picked == SelectSeq(Indices(Len(PatchKeyOrder)), In)
    IN  JObj([j \in 1..Len(picked) |->
                Entry(K(PatchKeyOrder[picked[j]]),
                      PatchValueCycle[((picked[j] + shift) % Len(PatchValueCycle)) + 1])])

PatchObjects ==
    {PatchObject(S, shift) :
        S \in {T \in SUBSET (1..Len(PatchKeyOrder)) : Cardinality(T) <= MaxPatchKeys},
        shift \in 0..(Len(PatchValueCycle) - 1)}

NonObjectPatches ==
    {Undefined, JNull, JBool(FALSE), JBool(TRUE), JNum(0), JNum(5), JStr(<<>>),
     JStr(K("x")), JArr(<<>>), JArr(<<JStr(K("todos"))>>)}

Modes ==
    {Undefined, JNull, JNum(1), JBool(TRUE), JStr(<<>>), JStr(K("preview_patch")),
     JStr(K("readonly")), JStr(K("PREVIEW_PATCH")),
     JStr(<<WS, Word("preview_patch")>>), JArr(<<JStr(K("preview_patch"))>>)}

Messages ==
    {Undefined, JNull, JNum(3), JStr(<<>>), JStr(<<WS>>), JStr(K("ok")),
     JStr(<<WS, Word("ok"), WS>>)}

ModelOutputs ==
    {ModelOutput(m, g, p) :
        m \in Modes, g \in Messages,
        p \in {Undefined, JArr(<<JNum(1)>>), PatchObject({1, 2, 3}, 0)}}
    \cup {ModelOutput(m, JStr(K("ok")), p) :
            m \in {JStr(K("preview_patch")), JStr(K("readonly"))},
            p \in NonObjectPatches \cup PatchObjects}
    \cup {ScenarioC, JNull, JNum(1), JBool(TRUE), JStr(K("hi")), JArr(<<>>),
          JArr(<<ScenarioC>>), JObj(<<>>)}

\* the texts a model may answer with: JSON, JSON in whitespace, and not JSON
\* (one of them JSON in a markdown code fence)
ModelContents ==
    {Stringify(v) : v \in ModelOutputs}
    \cup {<<WS>> \o Stringify(ScenarioC) \o <<WS>>,
          <<Word("~~~json")>> \o Stringify(ScenarioC) \o <<Word("~~~")>>,
          SubSeq(Stringify(ScenarioC), 1, Len(Stringify(ScenarioC)) - 1),
          Stringify(ScenarioC) \o <<Punct("}")>>,
          K("not json"), <<WS>>}

ManyUpstreamResults ==
    FewUpstreamResults
    \cup {UpstreamResponse(200, Completion(JStr(c))) : c \in ModelContents}

GoodRequests ==
    {Post(RequestBody(GoodInstruction, c, Undefined, JBool(TRUE))) : c \in Contexts}

(* Histories *)

RoleCycle ==
    <<JStr(K("user")), JStr(K("assistant")), JStr(K("system")), Undefined,
      JStr(K("Assistant")), JNull>>

\* entries the filter drops
DroppedCycle ==
    <<JNull,
      HistoryItem(JStr(K("user")), JStr(<<>>)),
      HistoryItem(JStr(K("assistant")), JStr(<<WS>>)),
      HistoryItem(JStr(K("user")), JNum(4)),
      JObj(<<Entry(K("role"), JStr(K("assistant")))>>),
      JStr(K("hello")),
      HistoryItem(JStr(K("assistant")), JNull),
      JNum(0),
      HistoryItem(JStr(K("user")), JStr(<<WS, WS>>))>>

\* the i-th turn of a conversation: its content names i
Turn(i, shift) ==
    HistoryItem(RoleCycle[((i + shift) % Len(RoleCycle)) + 1],
                JStr(IF i % 2 = 0 THEN <<Word("turn"), Lit(JNum(i))>>
                     ELSE <<WS, Word("turn"), Lit(JNum(i))>>))

History(n, D, shift) ==
    JArr([i \in 1..n |->
            IF i \in D THEN DroppedCycle[((i + shift) % Len(DroppedCycle)) + 1]
            ELSE Turn(i, shift)])

Histories ==
    UNION {{History(n, D, shift) :
              D \in {T \in SUBSET (1..n) : Cardinality(T) <= MaxDropped},
              shift \in {0, 1}} :
           n \in 0..MaxHistory}

HistoryRequests ==
    {Post(RequestBody(GoodInstruction, Undefined, h, Undefined)) : h \in Histories}

FewerUpstreamResults ==
    {Rejected,
     UpstreamResponse(200, Completion(JStr(Stringify(
         ModelOutput(JStr(K("readonly")), JStr(K("as said before")), Undefined)))))}

-----------------------------------------------------------------------------
(* The handler as a state machine.  It suspends at its fetch. *)

NoRequest == [method |-> "none", body |-> <<>>]
NoFetch == [kind |-> "none"]
NoResult == [kind |-> "none"]
NoResponse == [status |-> 0, contentType |-> "none", body |-> <<>>]

\* a request arrives
Receive(requests) ==
    /\ pc = "idle"
    /\ \E r \in requests : req' = r
    /\ pc' = "received"
    /\ UNCHANGED <<env, upstreamReq, upstreamRes, res, calls>>

\* lines 36-38
Preflight ==
    /\ pc = "received"
    /\ req.method = "OPTIONS"
    /\ res' = [status |-> 200, contentType |-> "text/plain", body |-> K("ok")]
    /\ pc' = "responded"
    /\ UNCHANGED <<env, req, upstreamReq, upstreamRes, calls>>

\* lines 40-114: up to the Response returned early, or to the fetch
Handle ==
    /\ pc = "received"
    /\ req.method # "OPTIONS"
    /\ LET step == BeforeFetch(env, req) IN
       IF step.kind = "response"
       THEN /\ res' = step.res
            /\ pc' = "responded"
            /\ UNCHANGED <<upstreamReq, calls>>
       ELSE /\ upstreamReq' = step
            /\ calls' = calls + 1
            /\ pc' = "fetching"
            /\ UNCHANGED res
    /\ UNCHANGED <<env, req, upstreamRes>>

\* the fetch settles: the endpoint answers, or the request fails
Settle(results) ==
    /\ pc = "fetching"
    /\ \E u \in results : upstreamRes' = u
    /\ pc' = "fetched"
    /\ UNCHANGED <<env, req, upstreamReq, res, calls>>

\* faulty variant: a failed upstream call is tried once more
RespondOrRetry ==
    /\ pc = "fetched"
    /\ IF AfterFetch(upstreamRes).status = 500 /\ calls < 2
       THEN /\ calls' = calls + 1
            /\ pc' = "fetching"
            /\ UNCHANGED res
       ELSE /\ res' = AfterFetch(upstreamRes)
            /\ pc' = "responded"
            /\ UNCHANGED calls
    /\ UNCHANGED <<env, req, upstreamReq, upstreamRes>>

\* lines 116-184
Respond ==
    /\ pc = "fetched"
    /\ res' = AfterFetch(upstreamRes)
    /\ pc' = "responded"
    /\ UNCHANGED <<env, req, upstreamReq, upstreamRes, calls>>

\* the Response is sent; the function holds nothing between requests
Finish ==
    /\ pc = "responded"
    /\ pc' = "idle"
    /\ req' = NoRequest
    /\ upstreamReq' = NoFetch
    /\ upstreamRes' = NoResult
    /\ res' = NoResponse
    /\ calls' = 0
    /\ UNCHANGED env

GatewayInit(envs) ==
    /\ env \in envs
    /\ pc = "idle"
    /\ req = NoRequest
    /\ upstreamReq = NoFetch
    /\ upstreamRes = NoResult
    /\ res = NoResponse
    /\ calls = 0

ClientIdle ==
    /\ loadState = "Unloaded"
    /\ isDataLoaded = FALSE
    /\ localDoc = <<>>
    /\ storedDoc = [found |-> FALSE, data |-> <<>>]
    /\ inFlight = <<>>
    /\ syncQueue = 0
    /\ debounceTimer = FALSE
    /\ writeLog = <<>>
    /\ attempts = <<>>

Init == GatewayInit(Envs) /\ ClientIdle

Next ==
    \/ Receive(Requests) /\ UNCHANGED clientVars
    \/ Preflight /\ UNCHANGED clientVars
    \/ Handle /\ UNCHANGED clientVars
    \/ Settle(FewUpstreamResults) /\ UNCHANGED clientVars
    \/ Respond /\ UNCHANGED clientVars
    \/ Finish /\ UNCHANGED clientVars

Spec == Init /\ [][Next]_vars

\* the sanitizer under every model output
NextSanitize ==
    \/ Receive(GoodRequests) /\ UNCHANGED clientVars
    \/ Handle /\ UNCHANGED clientVars
    \/ Settle(ManyUpstreamResults) /\ UNCHANGED clientVars
    \/ Respond /\ UNCHANGED clientVars
    \/ Finish /\ UNCHANGED clientVars

InitConfigured == GatewayInit({ConfiguredEnv}) /\ ClientIdle

SpecSanitize == InitConfigured /\ [][NextSanitize]_vars

\* the forwarded history under long histories
NextHistory ==
    \/ Receive(HistoryRequests) /\ UNCHANGED clientVars
    \/ Handle /\ UNCHANGED clientVars
    \/ Settle(FewerUpstreamResults) /\ UNCHANGED clientVars
    \/ Respond /\ UNCHANGED clientVars
    \/ Finish /\ UNCHANGED clientVars

SpecHistory == InitConfigured /\ [][NextHistory]_vars

-----------------------------------------------------------------------------
(* The client's cloud sync (index.html), as the design documents give it:   *)
(* isDataLoaded holds back every save until the first load has completed;   *)
(* triggerSync() saves now, debouncedSave() after 1000 ms of quiet;         *)
(* saveToCloud() upserts the one row.  A document is the list of the        *)
(* mutations applied to it; the default document is the empty list.  Other  *)
(* devices' writes are outside this model (one active writer).              *)

DefaultDoc == <<>>
NotFound == [found |-> FALSE, data |-> DefaultDoc]
Found(data) == [found |-> TRUE, data |-> data]

\* the row an earlier session left
EarlierDoc == <<0>>

IsPrefix(a, b) == Len(a) <= Len(b) /\ SubSeq(b, 1, Len(a)) = a

Attempt(kind, outcome) ==
    [kind |-> kind, outcome |-> outcome, state |-> loadState, doc |-> localDoc]

\* saveToCloud() starts: the upsert carries the local state as it is now
StartWrite(log) ==
    /\ inFlight' = Append(inFlight, [data |-> localDoc, entry |-> Len(log) + 1])
    /\ writeLog' = Append(log, [data |-> localDoc, over |-> storedDoc,
                                state |-> loadState, result |-> "pending"])

\* faulty variant: no gate: a save before the first load goes out
RequestWriteUngated(kind) ==
    /\ Len(attempts) < MaxAttempts
    /\ IF inFlight = <<>>
       THEN /\ attempts' = Append(attempts, Attempt(kind, "started"))
            /\ StartWrite(writeLog)
            /\ UNCHANGED syncQueue
       ELSE /\ attempts' = Append(attempts, Attempt(kind, "queued"))
            /\ syncQueue' = syncQueue + 1
            /\ UNCHANGED <<inFlight, writeLog>>

\* faulty variant: no queue: a save fires beside the one in flight
RequestWriteConcurrent(kind) ==
    /\ Len(attempts) < MaxAttempts
    /\ IF ~isDataLoaded
       THEN /\ attempts' = Append(attempts, Attempt(kind, "suppressed"))
            /\ UNCHANGED <<inFlight, writeLog, syncQueue>>
       ELSE /\ attempts' = Append(attempts, Attempt(kind, "started"))
            /\ StartWrite(writeLog)
            /\ UNCHANGED syncQueue

\* a save is requested: held back while the gate is closed, started when no
\* write is in flight, queued behind the one in flight otherwise
RequestWrite(kind) ==
    /\ Len(attempts) < MaxAttempts
    /\ IF ~isDataLoaded
       THEN /\ attempts' = Append(attempts, Attempt(kind, "suppressed"))
            /\ UNCHANGED <<inFlight, writeLog, syncQueue>>
       ELSE IF inFlight = <<>>
            THEN /\ attempts' = Append(attempts, Attempt(kind, "started"))
                 /\ StartWrite(writeLog)
                 /\ UNCHANGED syncQueue
            ELSE /\ attempts' = Append(attempts, Attempt(kind, "queued"))
                 /\ syncQueue' = syncQueue + 1
                 /\ UNCHANGED <<inFlight, writeLog>>

Startup ==
    /\ loadState = "Unloaded"
    /\ loadState' = "Loading"
    /\ UNCHANGED <<isDataLoaded, localDoc, storedDoc, inFlight, syncQueue,
                   debounceTimer, writeLog, attempts>>

\* the first read returns: handleDataLoad() takes the row's data, if any
ReadSucceeds ==
    /\ loadState = "Loading"
    /\ loadState' = "Loaded"
    /\ isDataLoaded' = TRUE
    /\ localDoc' = IF storedDoc.found THEN storedDoc.data ELSE localDoc
    /\ UNCHANGED <<storedDoc, inFlight, syncQueue, debounceTimer, writeLog,
                   attempts>>

ReadFails ==
    /\ loadState = "Loading"
    /\ loadState' = "Error"
    /\ UNCHANGED <<isDataLoaded, localDoc, storedDoc, inFlight, syncQueue,
                   debounceTimer, writeLog, attempts>>

Retry ==
    /\ loadState = "Error"
    /\ loadState' = "Loading"
    /\ UNCHANGED <<isDataLoaded, localDoc, storedDoc, inFlight, syncQueue,
                   debounceTimer, writeLog, attempts>>

\* step 1 of a mutation flow: window state changes
Mutate ==
    /\ Len(localDoc) <= MaxMutations
    /\ localDoc' = Append(localDoc, Len(localDoc) + 1)
    /\ UNCHANGED <<loadState, isDataLoaded, storedDoc, inFlight, syncQueue,
                   debounceTimer, writeLog, attempts>>

TriggerSync ==
    /\ RequestWrite("immediate")
    /\ UNCHANGED <<loadState, isDataLoaded, localDoc, storedDoc, debounceTimer>>

\* a pending timer is cancelled and replaced
DebouncedSave ==
    /\ debounceTimer' = TRUE
    /\ UNCHANGED <<loadState, isDataLoaded, localDoc, storedDoc, inFlight,
                   syncQueue, writeLog, attempts>>

TimerFires ==
    /\ debounceTimer
    /\ debounceTimer' = FALSE
    /\ RequestWrite("debounced")
    /\ UNCHANGED <<loadState, isDataLoaded, localDoc, storedDoc>>

Without(q, k) == [i \in 1..(Len(q) - 1) |-> IF i < k THEN q[i] ELSE q[i + 1]]

\* the write in flight at k settles; the next queued save starts
WriteSettles(k, result) ==
    LET logged == [writeLog EXCEPT ![inFlight[k].entry].result = result]
        left == Without(inFlight, k)
    IN  IF syncQueue > 0 /\ left = <<>>
        THEN /\ syncQueue' = syncQueue - 1
             /\ inFlight' = <<[data |-> localDoc, entry |-> Len(logged) + 1]>>
             /\ writeLog' = Append(logged,
                                   [data |-> localDoc, over |-> storedDoc',
                                    state |-> loadState, result |-> "pending"])
        ELSE /\ inFlight' = left
             /\ writeLog' = logged
             /\ UNCHANGED syncQueue

WriteAcked ==
    /\ \E k \in 1..Len(inFlight) :
          /\ storedDoc' = Found(inFlight[k].data)
          /\ WriteSettles(k, "acked")
    /\ UNCHANGED <<loadState, isDataLoaded, localDoc, debounceTimer, attempts>>

\* logged and swallowed: the local state is kept
WriteFailed ==
    /\ \E k \in 1..Len(inFlight) :
          /\ storedDoc' = storedDoc
          /\ WriteSettles(k, "failed")
    /\ UNCHANGED <<loadState, isDataLoaded, localDoc, debounceTimer, attempts>>

ClientInit ==
    /\ loadState = "Unloaded"
    /\ isDataLoaded = FALSE
    /\ localDoc = DefaultDoc
    /\ storedDoc \in {NotFound, Found(EarlierDoc)}
    /\ inFlight = <<>>
    /\ syncQueue = 0
    /\ debounceTimer = FALSE
    /\ writeLog = <<>>
    /\ attempts = <<>>

NextSync ==
    \/ Startup /\ UNCHANGED gatewayVars
    \/ ReadSucceeds /\ UNCHANGED gatewayVars
    \/ ReadFails /\ UNCHANGED gatewayVars
    \/ Retry /\ UNCHANGED gatewayVars
    \/ Mutate /\ UNCHANGED gatewayVars
    \/ TriggerSync /\ UNCHANGED gatewayVars
    \/ DebouncedSave /\ UNCHANGED gatewayVars
    \/ TimerFires /\ UNCHANGED gatewayVars
    \/ WriteAcked /\ UNCHANGED gatewayVars
    \/ WriteFailed /\ UNCHANGED gatewayVars

InitSync == GatewayInit({ConfiguredEnv}) /\ ClientInit

SpecSync == InitSync /\ [][NextSync]_vars

-----------------------------------------------------------------------------
(* What a claim speaks of *)

\* the handler has answered a request that is not a preflight
Answered == pc = "responded" /\ req.method = "POST"

\* the Response's body as its caller reads it
ResponseJson == JSONParse(res.body)
ResponseField(name) == GetProp(ResponseJson.v, K(name))
ResponseKeys == {ResponseJson.v.m[i].key : i \in 1..Len(ResponseJson.v.m)}

Readonly == JStr(K("readonly"))
PreviewPatch == JStr(K("preview_patch"))

\* the request's body as sent
RequestJson == JSONParse(req.body)
SentObject == RequestJson.ok /\ RequestJson.v # JNull
SentInstruction == GetProp(RequestJson.v, K("instruction"))
IsBlank(text) == \A n \in 1..Len(text) : text[n] = WS

\* absent, empty, or blank
EmptyInstruction ==
    SentInstruction \in {Undefined, JNull}
    \/ (SentInstruction.k = "str" /\ IsBlank(SentInstruction.s))

NonEmptyInstruction == SentInstruction.k = "str" /\ ~IsBlank(SentInstruction.s)

IsSet(secret) == secret.k = "str" /\ secret.s # <<>>
Configured == IsSet(env.AI_API_KEY) /\ IsSet(env.AI_BASE_URL)

\* the endpoint's answer, and the model's content in it
UpstreamSucceeded ==
    /\ upstreamRes.kind = "response"
    /\ upstreamRes.status \in 200..299
    /\ JSONParse(upstreamRes.body).ok

CompletionContent ==
    OptProp(OptProp(OptFirst(OptProp(JSONParse(upstreamRes.body).v, K("choices"))),
                    K("message")), K("content"))

\* the model's content is a string that parses as JSON
HasParsedOutput ==
    /\ pc = "responded"
    /\ UpstreamSucceeded
    /\ CompletionContent.k = "str"
    /\ JSONParse(CompletionContent.s).ok

ParsedOutput == JSONParse(CompletionContent.s).v
OutputField(name) == OptProp(ParsedOutput, K(name))

Whitelist ==
    {K("records"), K("todos"), K("questions"), K("dailyPlans"), K("currentTask"),
     K("currentTaskDescription"), K("currentPlanId"), K("currentTodoId"),
     K("startTime"), K("pausedTime"), K("isPaused")}

-----------------------------------------------------------------------------
(* Claims *)

\* C1: for a model output of mode "preview_patch" whose patch is an object P,
\* the 200 response's patch holds exactly P's whitelisted properties, each
\* with the value it has in P, and nothing else.
C1_PatchIsWhitelistedPassThrough ==
    (/\ HasParsedOutput
     /\ OutputField("mode") = PreviewPatch
     /\ OutputField("patch").k = "obj")
    => LET P == OutputField("patch").m
           R == ResponseField("patch")
       IN  /\ res.status = 200
           /\ Cardinality(Whitelist) = 11
           /\ R.k = "obj"
           /\ \A i, j \in 1..Len(R.m) : R.m[i].key = R.m[j].key => i = j
           /\ \A i \in 1..Len(R.m) :
                /\ R.m[i].key \in Whitelist
                /\ \E j \in 1..Len(P) : P[j] = R.m[i]
           /\ \A j \in 1..Len(P) :
                P[j].key \in Whitelist => \E i \in 1..Len(R.m) : R.m[i] = P[j]

\* Scenario C: {"todos":[],"hacked":"x"} came back as {"todos":[]}
C1_Witness ==
    /\ HasParsedOutput
    /\ ParsedOutput = ScenarioC
    /\ res.status = 200
    /\ ResponseField("patch") = JObj(<<Entry(K("todos"), JArr(<<>>))>>)

\* C2: every response to a request that is not a preflight is a JSON object
\* with mode readonly or preview_patch and a string message; one whose status
\* is not 200 has mode readonly and no patch.
C2_EveryResponseIsUniform ==
    Answered
    => /\ res.status \in {200, 400, 500}
       /\ res.contentType = "application/json"
       /\ ResponseJson.ok
       /\ ResponseJson.v.k = "obj"
       /\ ResponseField("mode") \in {Readonly, PreviewPatch}
       /\ ResponseField("message").k = "str"
       /\ res.status # 200
          => /\ ResponseField("mode") = Readonly
             /\ K("patch") \notin ResponseKeys

\* a thrown fault (the body is the JSON text null) came back converted
C2_Witness ==
    /\ Answered
    /\ RequestJson.ok
    /\ RequestJson.v = JNull
    /\ res.status = 500
    /\ ResponseField("mode") = Readonly
    /\ Head(ResponseField("message").s) = MsgFunctionError

\* C3: a request whose instruction is absent, empty or blank is answered 400
\* with {mode: readonly, message: MsgEmptyInstruction}, whatever the secrets,
\* and no fetch is issued for it.
C3_EmptyInstructionIs400 ==
    (/\ pc \in {"fetching", "fetched", "responded"}
     /\ req.method = "POST"
     /\ SentObject
     /\ EmptyInstruction)
    => /\ pc = "responded"
       /\ res.status = 400
       /\ ResponseJson.ok
       /\ ResponseJson.v = ReadonlyBody(MsgEmptyInstruction)
       /\ calls = 0
       /\ upstreamReq = NoFetch

\* a blank instruction answered 400 with no secret set
C3_Witness ==
    /\ Answered
    /\ SentObject
    /\ SentInstruction = JStr(<<WS>>)
    /\ env.AI_API_KEY = Undefined
    /\ env.AI_BASE_URL = Undefined
    /\ res.status = 400

\* the endpoint failed: a non-success status, or content that is no string
\* or does not parse
UpstreamFailed ==
    \/ upstreamRes.kind = "response" /\ upstreamRes.status \notin 200..299
    \/ /\ UpstreamSucceeded
       /\ \/ CompletionContent.k # "str"
          \/ ~JSONParse(CompletionContent.s).ok

\* C4: at most one fetch per request; exactly one when the instruction is
\* non-empty and both secrets are set, none otherwise; a missing secret is
\* answered 500 readonly; a failed fetch is answered 500 and not repeated.
C4_OneFetchNoRetry ==
    /\ calls \in {0, 1}
    /\ Answered
       => /\ calls = 1 <=> (SentObject /\ NonEmptyInstruction /\ Configured)
          /\ (SentObject /\ NonEmptyInstruction /\ ~Configured)
             => /\ res.status = 500
                /\ ResponseJson.v = ReadonlyBody(MsgNotConfigured)
          /\ (calls = 1 /\ UpstreamFailed) => res.status = 500

\* a 429 from the endpoint answered 500 after the one fetch
C4_Witness ==
    /\ Answered
    /\ calls = 1
    /\ upstreamRes.kind = "response"
    /\ upstreamRes.status = 429
    /\ res.status = 500

\* C5: once the fetch was issued, the answer is 200 exactly when the upstream
\* status is a success and the model content is a string that parses as JSON,
\* whatever value it parses to; otherwise it is 500.
C5_ParsableContentIs200 ==
    (Answered /\ calls = 1)
    => /\ res.status \in {200, 500}
       /\ res.status = 200 <=> HasParsedOutput

\* C6: under mode preview_patch, a patch that is missing or is not an object
\* gives a 200 response of mode and message only.
C6_NonObjectPatchIsMessageOnly ==
    (/\ HasParsedOutput
     /\ OutputField("mode") = PreviewPatch
     /\ OutputField("patch").k # "obj")
    => /\ res.status = 200
       /\ ResponseKeys = {K("mode"), K("message")}

\* C8: the sanitized mode is preview_patch exactly when the output's mode is
\* the string "preview_patch" and readonly otherwise; the sanitized message
\* is the output's when that is a non-blank string and MsgFallback otherwise;
\* a patch appears only under preview_patch.
C8_ModeAndMessageDefaults ==
    HasParsedOutput
    => /\ ResponseField("mode") =
            (IF OutputField("mode") = PreviewPatch THEN PreviewPatch ELSE Readonly)
       /\ ResponseField("message") =
            (IF OutputField("message").k = "str" /\ ~IsBlank(OutputField("message").s)
             THEN OutputField("message") ELSE JStr(MsgFallback))
       /\ K("patch") \in ResponseKeys => ResponseField("mode") = PreviewPatch

\* the request's history as sent, and the entries of it whose content is a
\* non-blank string
SentHistory ==
    IF GetProp(RequestJson.v, K("history")).k = "arr"
    THEN GetProp(RequestJson.v, K("history")).a ELSE <<>>

HasTextContent(item) ==
    /\ OptProp(item, K("content")).k = "str"
    /\ ~IsBlank(OptProp(item, K("content")).s)

ForwardedMessages == GetProp(JSONParse(upstreamReq.body).v, K("messages")).a

ForwardedRole(item) ==
    IF OptProp(item, K("role")) = JStr(K("assistant"))
    THEN JStr(K("assistant")) ELSE JStr(K("user"))

\* text is padded by whitespace on either side of core
IsPaddingOf(text, core) ==
    \E a, b \in 0..Len(text) :
        /\ Len(text) = a + Len(core) + b
        /\ \A n \in 1..Len(text) :
             text[n] = (IF n <= a \/ n > a + Len(core) THEN WS ELSE core[n - a])

\* C7: the messages sent upstream are the system instruction, then the last
\* 12 (or all, if fewer) of the history entries whose content is a non-blank
\* string, in their order, each with role assistant if its role was exactly
\* "assistant" and user otherwise, then the instruction and context as the
\* final user turn; dropped entries take none of the 12 places.
C7_ForwardedHistory ==
    (pc = "fetching" /\ upstreamReq.kind = "fetch")
    => LET msgs == ForwardedMessages
           sent == SentHistory
           kept == {i \in 1..Len(sent) : HasTextContent(sent[i])}
           n == Len(msgs) - 2
           After(i) == Cardinality({g \in kept : g > i})
           final == JSONParse(GetProp(msgs[n + 2], K("content")).s)
           instruction == GetProp(final.v, K("instruction"))
           context == GetProp(RequestJson.v, K("context"))
       IN  /\ JSONParse(upstreamReq.body).ok
           /\ n = (IF Cardinality(kept) < 12 THEN Cardinality(kept) ELSE 12)
           /\ msgs[1] = HistoryItem(JStr(K("system")), JStr(SystemPrompt))
           /\ \A i \in kept :
                After(i) < n
                => msgs[n - After(i) + 1] =
                     HistoryItem(ForwardedRole(sent[i]), GetProp(sent[i], K("content")))
           /\ GetProp(msgs[n + 2], K("role")) = JStr(K("user"))
           /\ final.ok
           /\ instruction.k = "str"
           /\ instruction.s # <<>>
           /\ Head(instruction.s) # WS
           /\ IsPaddingOf(SentInstruction.s, instruction.s)
           /\ GetProp(final.v, K("context")) =
                (IF context = Undefined THEN JObj(<<>>) ELSE context)

\* 14 entries were sent, one of the last 12 was dropped, and the 12 forwarded
\* start at the second entry
C7_Witness ==
    /\ upstreamReq.kind = "fetch"
    /\ LET msgs == ForwardedMessages
           sent == SentHistory
       IN  /\ Len(sent) = 14
           /\ Len(msgs) = 14
           /\ HasTextContent(sent[1])
           /\ HasTextContent(sent[2])
           /\ \E i \in 3..14 : ~HasTextContent(sent[i])
           /\ GetProp(msgs[2], K("content")) = GetProp(sent[2], K("content"))
           /\ GetProp(sent[2], K("role")) = Undefined
           /\ GetProp(msgs[2], K("role")) = JStr(K("user"))

\* C9: no write reaches the Document Store while the gate is closed: every
\* save requested in Unloaded, Loading or Error is held back, the gate is open
\* exactly in Loaded, and no write replaces the stored document by one that
\* does not contain it (so never by the default document).
C9_GateHoldsWrites ==
    /\ isDataLoaded <=> loadState = "Loaded"
    /\ ~isDataLoaded => inFlight = <<>> /\ syncQueue = 0 /\ writeLog = <<>>
    /\ \A i \in 1..Len(attempts) :
         attempts[i].state # "Loaded" <=> attempts[i].outcome = "suppressed"
    /\ \A i \in 1..Len(writeLog) :
         /\ writeLog[i].state = "Loaded"
         /\ writeLog[i].over.found => IsPrefix(writeLog[i].over.data, writeLog[i].data)
    /\ storedDoc.found /\ writeLog = <<>> => storedDoc.data = EarlierDoc

\* a save was held back while loading the earlier session's row, and a later
\* one wrote that row extended
C9_Witness ==
    /\ Len(attempts) >= 2
    /\ attempts[1].outcome = "suppressed"
    /\ attempts[1].state = "Loading"
    /\ attempts[1].doc # DefaultDoc
    /\ storedDoc.found
    /\ Len(storedDoc.data) > Len(EarlierDoc)
    /\ IsPrefix(EarlierDoc, storedDoc.data)

Accepted == SelectSeq(attempts, LAMBDA a : a.outcome # "suppressed")
Drained == inFlight = <<>> /\ syncQueue = 0

====
